---------------------------- MODULE Spec2Model ----------------------------
(***************************************************************************)
(* Model of bp.py: the link resolver (linkshortify / tejtime24 / lksfy ->  *)
(* bypass service -> final page), the page extractor with its episode      *)
(* label heuristic, and the message handler that presents the result.      *)
(*                                                                         *)
(* Python strings are sequences of one-character strings, so that          *)
(* strip(), the regular expressions, str.title(), substring tests and      *)
(* json.loads are computed character by character.  A parsed page is a     *)
(* tree of records; a node is named by its path of child indexes from the  *)
(* BeautifulSoup root.                                                     *)
(***************************************************************************)
EXTENDS Integers, Sequences, FiniteSets, TLC

\* Python's None: a tuple no string equals, since "None" is not a character
None == << "None" >>

(***************************************************************************)
(* Characters and Python's str helpers                                     *)
(***************************************************************************)
LowerLetters == <<"a","b","c","d","e","f","g","h","i","j","k","l","m","n","o","p","q","r","s","t","u","v","w","x","y","z">>
UpperLetters == <<"A","B","C","D","E","F","G","H","I","J","K","L","M","N","O","P","Q","R","S","T","U","V","W","X","Y","Z">>
Digits == <<"0","1","2","3","4","5","6","7","8","9">>
Range(f) == {f[i] : i \in DOMAIN f}

\* str.lower() / str.upper() on one character
ToLower == [c \in Range(UpperLetters) |-> LowerLetters[CHOOSE k \in 1..26 : UpperLetters[k] = c]]
ToUpper == [c \in Range(LowerLetters) |-> UpperLetters[CHOOSE k \in 1..26 : LowerLetters[k] = c]]
LowerChar(c) == IF c \in DOMAIN ToLower THEN ToLower[c] ELSE c
UpperChar(c) == IF c \in DOMAIN ToUpper THEN ToUpper[c] ELSE c
IsCased(c) == c \in DOMAIN ToLower \/ c \in DOMAIN ToUpper
IsDigit(c) == c \in Range(Digits)
IsAlnum(c) == IsDigit(c) \/ IsCased(c)
\* \s of the re module, on the characters of the model
IsSpace(c) == c \in {" ", "\t", "\n"}

Lower(s) == [i \in 1..Len(s) |-> LowerChar(s[i])]

\* the text s[i..j-1]  (Python's s[i:j], 1-based)
Slice(s, i, j) == SubSeq(s, i, j - 1)

\* s.startswith(lit, i), compared as the pattern flag re.I compares
LitAtCI(s, i, lit) ==
    /\ i + Len(lit) - 1 <= Len(s)
    /\ \A k \in 1..Len(lit) : LowerChar(s[i + k - 1]) = LowerChar(lit[k])

\* the same, case-sensitive
LitAt(s, i, lit) ==
    /\ i + Len(lit) - 1 <= Len(s)
    /\ \A k \in 1..Len(lit) : s[i + k - 1] = lit[k]

\* Python's  lit in s
Contains(s, lit) == \E i \in 1..(Len(s) + 1) : LitAt(s, i, lit)

StartsWith(s, lit) == LitAt(s, 1, lit)

Min(S) == CHOOSE x \in S : \A y \in S : x <= y

\* the least index of S, 0 when there is none: where a leftmost search matches
Leftmost(S) == IF S = {} THEN 0 ELSE Min(S)

\* first index >= i whose character is not in the class (Len(s)+1 when none):
\* the end of a greedy run of the class from i
SkipWhile(s, i, InClass(_)) ==
    IF i > Len(s) THEN i
    ELSE CHOOSE k \in i..(Len(s) + 1) :
            /\ k > Len(s) \/ ~InClass(s[k])
            /\ \A j \in i..(k - 1) : InClass(s[j])

SkipSpaces(s, i) == SkipWhile(s, i, IsSpace)
SkipDigits(s, i) == SkipWhile(s, i, IsDigit)
SkipAlnum(s, i) == SkipWhile(s, i, IsAlnum)

\* last index <= j whose character is not whitespace (0 when none)
LastNonSpace(s, j) ==
    CHOOSE k \in 0..j :
        /\ k = 0 \/ ~IsSpace(s[k])
        /\ \A m \in (k + 1)..j : IsSpace(s[m])

\* str.strip()
Strip(s) ==
    LET i == SkipSpaces(s, 1)
        j == LastNonSpace(s, Len(s))
    IN  IF i > j THEN <<>> ELSE SubSeq(s, i, j)

\* re.sub(r"\s+", " ", s): every run of whitespace becomes one blank
SubSpaces(s) ==
    LET kept == SelectSeq([i \in 1..Len(s) |-> i],
                          LAMBDA i : ~(IsSpace(s[i]) /\ i > 1 /\ IsSpace(s[i - 1])))
    IN  [k \in 1..Len(kept) |-> IF IsSpace(s[kept[k]]) THEN " " ELSE s[kept[k]]]

\* _collapse_spaces
_collapse_spaces(s) == Strip(SubSpaces(s))

\* str.title(): a cased character is upper-cased after an uncased one, lower-cased otherwise
Title(s) ==
    [i \in 1..Len(s) |->
        IF ~IsCased(s[i]) THEN s[i]
        ELSE IF i = 1 \/ ~IsCased(s[i - 1]) THEN UpperChar(s[i])
        ELSE LowerChar(s[i])]

\* sep.join(parts), the parts joined half by half
RECURSIVE Join(_, _)
Join(parts, sep) ==
    IF Len(parts) = 0 THEN <<>>
    ELSE IF Len(parts) = 1 THEN parts[1]
    ELSE LET mid == Len(parts) \div 2
         IN  Join(SubSeq(parts, 1, mid), sep) \o sep
               \o Join(SubSeq(parts, mid + 1, Len(parts)), sep)

(***************************************************************************)
(* Label Matcher: EP_LABEL_RE.search(text), case-insensitive: an optional  *)
(* "season", blanks, digits, blanks; then one of episodes, episode, ep, e; *)
(* blanks, digits; then optionally blanks, a dash, blanks, digits.         *)
(* An end position 0 says "no match".  Each piece is matched greedily; a   *)
(* shorter run of blanks or digits never lets what follows match, so the   *)
(* only backtracking that matters is over the alternatives of the keyword. *)
(* The en dash and the em dash are the characters "&ndash;" and "&mdash;". *)
(***************************************************************************)
IsDash(c) == c \in {"-", "&ndash;", "&mdash;"}

\* the end b of a run that has to take at least one character from a, 0 when it takes none
Past(b, a) == IF b > a THEN b ELSE 0

\* the end e of an optional part, or where it would have begun
OrElse(e, k) == IF e # 0 THEN e ELSE k

\* blanks then digits from j: the end of the match, 0 when there is no digit
DigitsEnd(s, a) == Past(SkipDigits(s, a), a)
NumEnd(s, j) == DigitsEnd(s, SkipSpaces(s, j))

\* a dash at a, then blanks and digits: the end of the match, 0 when there is none
DashNumEnd(s, a) == IF a <= Len(s) /\ IsDash(s[a]) THEN NumEnd(s, a + 1) ELSE 0

\* the optional range suffix from k
RangeEnd(s, k) == OrElse(DashNumEnd(s, SkipSpaces(s, k)), k)

\* the range suffix after a number that ends at n, 0 when there was no number
RangeAfter(s, n) == IF n = 0 THEN 0 ELSE RangeEnd(s, n)

\* the lengths of the keyword alternatives, in the order the regex tries them
KeywordAlternatives == << <<"e","p","i","s","o","d","e","s">>, <<"e","p","i","s","o","d","e">>, <<"e","p">>, <<"e">> >>

\* one alternative of the keyword at i, then the number and the optional range
AltEnd(s, i, kw) == IF LitAtCI(s, i, kw) THEN RangeAfter(s, NumEnd(s, i + Len(kw))) ELSE 0

RECURSIVE CoreEndFrom(_, _, _)
CoreEndFrom(s, i, alt) ==
    IF alt > Len(KeywordAlternatives) THEN 0
    ELSE OrElse(AltEnd(s, i, KeywordAlternatives[alt]), CoreEndFrom(s, i, alt + 1))

\* keyword, number and optional range at i
CoreEnd(s, i) == CoreEndFrom(s, i, 1)

\* the whole pattern at i, the optional season prefix tried first
SEASON == <<"s","e","a","s","o","n">>

\* "season", blanks and a number at i: the end of the number, 0 when there is none
SeasonEnd(s, i) == IF LitAtCI(s, i, SEASON) THEN NumEnd(s, i + Len(SEASON)) ELSE 0

\* blanks, then keyword, number and range, after a season prefix that ends at n
AfterSeason(s, n) == IF n = 0 THEN 0 ELSE CoreEnd(s, SkipSpaces(s, n))

MatchEnd(s, i) == OrElse(AfterSeason(s, SeasonEnd(s, i)), CoreEnd(s, i))

\* EP_LABEL_RE.search(s): m.group(0) of the leftmost match, or None
GroupAt(s, i) == IF i = 0 THEN None ELSE Slice(s, i, MatchEnd(s, i))

EP_LABEL_RE_search(s) == GroupAt(s, Leftmost({ k \in 1..Len(s) : MatchEnd(s, k) # 0 }))

\* _collapse_spaces(m.group(0)).title(), or None when the text holds no label
LabelOf(m) == IF m = None THEN None ELSE Title(_collapse_spaces(m))

LabelIn(text) == LabelOf(EP_LABEL_RE_search(text))

SENTINEL == <<"E","p","i","s","o","d","e"," ","?">>

(***************************************************************************)
(* Link Classifier: _clean_tg_url, _clean_drive_url                        *)
(***************************************************************************)
\* the characters that end a link: whitespace, quotes, angle brackets
IsNoise(c) == IsSpace(c) \/ c \in {"\"", "'", "<", ">"}

IsClean(c) == ~IsNoise(c)
SkipClean(s, i) == SkipWhile(s, i, IsClean)

\* re.match of blanks, then one of the prefixes and at least one clean character:
\* group(1), or None.  The prefixes are tried in order.
FirstOf(a, b) == IF a # None THEN a ELSE b

\* group(1) from i to e, when the clean characters from j take at least one
CleanGroup(u, i, j, e) == IF e > j THEN Slice(u, i, e) ELSE None

\* one prefix at i, then the clean characters
CleanAfter(u, i, prefix) ==
    IF LitAtCI(u, i, prefix)
    THEN CleanGroup(u, i, i + Len(prefix), SkipClean(u, i + Len(prefix)))
    ELSE None

RECURSIVE CleanFrom(_, _, _)
CleanFrom(u, prefixes, k) ==
    IF k > Len(prefixes) THEN None
    ELSE FirstOf(CleanAfter(u, SkipSpaces(u, 1), prefixes[k]), CleanFrom(u, prefixes, k + 1))

TgPrefixes == << <<"h","t","t","p","s",":","/","/","t",".","m","e","/">>, <<"t","g",":","/","/">> >>
DrivePrefixes == << <<"h","t","t","p","s",":","/","/","d","r","i","v","e",".","g","o","o","g","l","e",".","c","o","m","/">>, <<"h","t","t","p","s",":","/","/","d","o","c","s",".","g","o","o","g","l","e",".","c","o","m","/">>,
                    <<"h","t","t","p","s",":","/","/","d","r","i","v","e",".","u","s","e","r","c","o","n","t","e","n","t",".","g","o","o","g","l","e",".","c","o","m","/">> >>

_clean_tg_url(u) == CleanFrom(u, TgPrefixes, 1)
_clean_drive_url(u) == CleanFrom(u, DrivePrefixes, 1)

(***************************************************************************)
(* URL patterns: LINKSHORTIFY_RE, TEJTIME_RE, LKSFY_RE (re.I).  Each is    *)
(* http, an optional s, "://", an optional "www.", the host and the start  *)
(* of the path, then at least one character that is neither a blank nor a  *)
(* newline (a tab is allowed).                                             *)
(***************************************************************************)
IsNonBlank(c) == c \notin {" ", "\n"}
SkipNonBlank(s, i) == SkipWhile(s, i, IsNonBlank)

\* the end of the pattern's match at i, 0 when it does not match there
\* where an optional literal at i ends
SkipOptional(s, i, lit) == IF LitAtCI(s, i, lit) THEN i + Len(lit) ELSE i

\* the host and the start of the path at d, then the characters of the rest
HostEnd(s, d, host) ==
    IF LitAtCI(s, d, host) THEN Past(SkipNonBlank(s, d + Len(host)), d + Len(host)) ELSE 0

\* "://" at b, then the optional "www."
SchemeEnd(s, b, host) ==
    IF LitAtCI(s, b, <<":","/","/">>) THEN HostEnd(s, SkipOptional(s, b + 3, <<"w","w","w",".">>), host) ELSE 0

UrlMatchEnd(s, i, host) ==
    IF LitAtCI(s, i, <<"h","t","t","p">>) THEN SchemeEnd(s, SkipOptional(s, i + 4, <<"s">>), host) ELSE 0

LINKSHORTIFY_RE == <<"l","i","n","k","s","h","o","r","t","i","f","y",".","c","o","m","/","f","u","l","l","?">>
TEJTIME_RE == <<"i","n","f","o",".","t","e","j","t","i","m","e","2","4",".","c","o","m","/">>
LKSFY_RE == <<"l","k","s","f","y",".","c","o","m","/">>

\* rx.match(s): the pattern matches at the start of s
ReMatch(rx, s) == UrlMatchEnd(s, 1, rx) # 0

\* rx.search(s): m.group(0) of the leftmost match, or None
UrlGroupAt(rx, s, i) == IF i = 0 THEN None ELSE Slice(s, i, UrlMatchEnd(s, i, rx))

ReSearch(rx, s) == UrlGroupAt(rx, s, Leftmost({ k \in 1..Len(s) : UrlMatchEnd(s, k, rx) # 0 }))

(***************************************************************************)
(* extract_id_from_url                                                     *)
(***************************************************************************)
\* s.find(c, i), 1-based: 0 when c does not occur from i on
IndexOf(s, c, i) == Leftmost({ k \in i..Len(s) : s[k] = c })

\* urlsplit drops tabs and newlines from the URL before it splits it
RemoveUnsafe(u) == SelectSeq(u, LAMBDA c : c \notin {"\t", "\n"})

\* urlparse(u).query: what lies between the first "?" and the fragment
\* s up to index h, the whole of s when h is 0; s after index q, nothing when q is 0
UpTo(s, h) == IF h = 0 THEN s ELSE Slice(s, 1, h)
After(s, q) == IF q = 0 THEN <<>> ELSE Slice(s, q + 1, Len(s) + 1)

\* s up to the first c (all of s when there is none), and s after it (nothing)
BeforeFirst(s, c) == UpTo(s, IndexOf(s, c, 1))
AfterFirst(s, c) == After(s, IndexOf(s, c, 1))

QueryOf(u) == AfterFirst(BeforeFirst(RemoveUnsafe(u), "#"), "?")

\* parse_qs(query)["id"][0]: the first id=value pair with a value, or None.
\* (Percent escapes and "+" are not among the characters of the model.)
IdValue(pair) ==
    IF LitAt(pair, 1, <<"i","d","=">>) /\ Len(pair) > 3 THEN Slice(pair, 4, Len(pair) + 1) ELSE None

RECURSIVE FirstId(_)
FirstId(query) ==
    IF Len(query) = 0 THEN None
    ELSE FirstOf(IdValue(BeforeFirst(query, "&")), FirstId(AfterFirst(query, "&")))

\* re.search of one of the needles (of one length), then one or more
\* alphanumerics: group(1) of the leftmost match, or None
NeedleLen(needles) == Len(CHOOSE lit \in needles : TRUE)

\* a needle at k and at least one alphanumeric after it
IdAt(s, k, needles) ==
    /\ \E lit \in needles : LitAt(s, k, lit)
    /\ SkipAlnum(s, k + NeedleLen(needles)) > k + NeedleLen(needles)

\* the alphanumerics from j, or None when there was no match (j = 0)
IdGroup(s, i, n) == IF i = 0 THEN None ELSE Slice(s, i + n, SkipAlnum(s, i + n))

IdAfter(s, needles) ==
    IdGroup(s, Leftmost({ k \in 1..Len(s) : IdAt(s, k, needles) }), NeedleLen(needles))

extract_id_from_url(u, body) ==
    FirstOf(FirstId(QueryOf(u)),
      FirstOf(IdAfter(u, {<<"?","i","d","=">>, <<"&","i","d","=">>}), IdAfter(body, {<<"i","d","=">>})))

(***************************************************************************)
(* The parsed page.  A node is a string (NavigableString) or a tag with    *)
(* its children; the root is the BeautifulSoup object.  A node is named by *)
(* its path: the child indexes from the root.                              *)
(***************************************************************************)
Str(s) == [kind |-> "str", s |-> s]
Tag(name, href, kids) == [kind |-> "tag", name |-> name, href |-> href, kids |-> kids]
Soup(kids) == Tag("[document]", None, kids)

RECURSIVE NodeAt(_, _)
NodeAt(doc, path) ==
    IF path = <<>> THEN doc ELSE NodeAt(doc.kids[Head(path)], Tail(path))

\* the None of a node attribute: a path no node has
NoNode == << 0 >>

\* node.parent: None above the root
parent(path) == IF path = <<>> THEN NoNode ELSE SubSeq(path, 1, Len(path) - 1)

\* node.previous_sibling: None for a first child and for the root
previous_sibling(path) ==
    IF path = <<>> \/ path[Len(path)] = 1 THEN NoNode
    ELSE [path EXCEPT ![Len(path)] = @ - 1]

\* the paths of the nodes of a level and of all the levels below it
RECURSIVE Below(_, _)
Below(doc, level) ==
    IF level = {} THEN {}
    ELSE level \cup
         Below(doc, UNION { { Append(q, i) : i \in DOMAIN NodeAt(doc, q).kids } :
                              q \in { r \in level : NodeAt(doc, r).kind = "tag" } })

\* the descendants of the root, the root included
Descendants(doc) == Below(doc, { << >> })

\* document order: a node comes before its descendants and before whatever
\* follows it among the children of a common ancestor
Before(p, q) ==
    \/ Len(p) < Len(q) /\ SubSeq(q, 1, Len(p)) = p
    \/ \E i \in 1..Len(p) :
          /\ i <= Len(q)
          /\ SubSeq(p, 1, i - 1) = SubSeq(q, 1, i - 1)
          /\ p[i] < q[i]

\* the paths of a set, as a sequence in document order
InDocumentOrder(S) ==
    [k \in 1..Cardinality(S) |->
        CHOOSE p \in S : Cardinality({ q \in S : Before(q, p) }) = k - 1]

\* the stripped, non-empty strings below a node, in document order
Strings(node) ==
    LET ord == InDocumentOrder({ p \in Descendants(node) :
                                   /\ NodeAt(node, p).kind = "str"
                                   /\ Strip(NodeAt(node, p).s) # <<>> })
    IN  [k \in DOMAIN ord |-> Strip(NodeAt(node, ord[k]).s)]

\* node.get_text(" ", strip=True)
get_text(node) == Join(Strings(node), << " " >>)

\* hasattr(node, "get_text"): strings and tags both have it
HasGetText(node) == node.kind \in {"str", "tag"}

\* the label in a node's collapsed text, None when the node holds none
LabelAt(doc, path) ==
    IF HasGetText(NodeAt(doc, path))
    THEN LabelIn(_collapse_spaces(get_text(NodeAt(doc, path))))
    ELSE None

(***************************************************************************)
(* Label Associator: _guess_label_for_anchor                               *)
(***************************************************************************)
MAX_PREV_SIBLINGS == 8
MAX_PARENTS == 4
MAX_PARENT_SIBLING_HOPS == 6

\* for _ in range(8): prev = prev.previous_sibling ...
RECURSIVE PrevSiblingLoop(_, _, _)
PrevSiblingLoop(doc, prev, left) ==
    IF left = 0 \/ previous_sibling(prev) = NoNode THEN None
    ELSE FirstOf(LabelAt(doc, previous_sibling(prev)),
                 PrevSiblingLoop(doc, previous_sibling(prev), left - 1))

\* while ps and hops < 6: ...
RECURSIVE ParentSiblingLoop(_, _, _)
ParentSiblingLoop(doc, ps, hops) ==
    IF ps = NoNode \/ hops >= MAX_PARENT_SIBLING_HOPS THEN None
    ELSE FirstOf(LabelAt(doc, ps), ParentSiblingLoop(doc, previous_sibling(ps), hops + 1))

\* one level of the parents loop: the parent's own text, then its previous siblings
ParentLevelSwapped(doc, node) ==
    FirstOf(ParentSiblingLoop(doc, previous_sibling(node), 0), LabelAt(doc, node))
ParentLevel(doc, node) ==
    FirstOf(LabelAt(doc, node), ParentSiblingLoop(doc, previous_sibling(node), 0))

\* for _ in range(4): node = node.parent ...
RECURSIVE ParentLoop(_, _, _)
ParentLoop(doc, node, left) ==
    IF left = 0 \/ parent(node) = NoNode THEN None
    ELSE FirstOf(ParentLevel(doc, parent(node)), ParentLoop(doc, parent(node), left - 1))

GuessWithoutParents(doc, a) ==
    FirstOf(LabelAt(doc, a), FirstOf(PrevSiblingLoop(doc, a, MAX_PREV_SIBLINGS), SENTINEL))
_guess_label_for_anchor(doc, a) ==
    FirstOf(LabelIn(_collapse_spaces(get_text(NodeAt(doc, a)))),
      FirstOf(PrevSiblingLoop(doc, a, MAX_PREV_SIBLINGS),
        FirstOf(ParentLoop(doc, a, MAX_PARENTS), SENTINEL)))

(***************************************************************************)
(* Page Extractor: the pure parts of extract_title_and_labeled_links       *)
(***************************************************************************)
\* soup.find_all("a", href=True): the paths of the anchors, in document order
IsAnchor(node) == node.kind = "tag" /\ node.name = "a" /\ node.href # None

find_all_a(doc) == InDocumentOrder({ p \in Descendants(doc) : IsAnchor(NodeAt(doc, p)) })

\* the tags named title, in document order; soup.title is the first
IsTitle(node) == node.kind = "tag" /\ node.name = "title"

TitleTags(doc) ==
    LET ord == InDocumentOrder({ p \in Descendants(doc) : IsTitle(NodeAt(doc, p)) })
    IN  [k \in DOMAIN ord |-> NodeAt(doc, ord[k])]

\* tag.string: the string of an only child, None otherwise
RECURSIVE StringOf(_)
StringOf(node) ==
    IF node.kind = "str" THEN node.s
    ELSE IF Len(node.kids) = 1 THEN StringOf(node.kids[1])
    ELSE None

DEFAULT_TITLE == <<"A","l","l"," ","L","i","n","k","s">>

\* Python's  a or b  on strings: b when a is None or empty
Or(a, b) == IF a = None \/ a = <<>> THEN b ELSE a

\* getattr(getattr(soup, "title", None), "string", "")
TitleString(tags) == IF tags = <<>> THEN <<>> ELSE StringOf(tags[1])

PageTitle(doc) == Or(_collapse_spaces(Or(TitleString(TitleTags(doc)), <<>>)), DEFAULT_TITLE)

\* grouped is a dict: a sequence of slots [label, tg, drive] in insertion order
Labels(grouped) == {grouped[i].label : i \in DOMAIN grouped}
SlotIndex(grouped, label) == CHOOSE i \in DOMAIN grouped : grouped[i].label = label

\* grouped.setdefault(label, {"tg": [], "drive": []})
SetDefault(grouped, label) ==
    IF label \in Labels(grouped) THEN grouped
    ELSE Append(grouped, [label |-> label, tg |-> <<>>, drive |-> <<>>])

EmptyExtraction == [grouped |-> <<>>, seen_tg |-> {}, seen_drive |-> {}]

\* a link the anchor carries and no anchor before it carried
IsNew(link, seen) == link # None /\ link \notin seen

\* lines 157-162: the links not yet seen go to the slot of the label in g1,
\* which is grouped after setdefault
AddUnseenPerLabel(st, tg, gd, label, g1) ==
    [grouped |-> [g1 EXCEPT ![SlotIndex(g1, label)] =
                    [label |-> label,
                     tg    |-> IF IsNew(tg, Range(@.tg)) THEN Append(@.tg, tg) ELSE @.tg,
                     drive |-> IF IsNew(gd, Range(@.drive)) THEN Append(@.drive, gd) ELSE @.drive]],
     seen_tg    |-> st.seen_tg,
     seen_drive |-> st.seen_drive]
AddUnseen(st, tg, gd, label, g1) ==
    [grouped |-> [g1 EXCEPT ![SlotIndex(g1, label)] =
                    [label |-> label,
                     tg    |-> IF IsNew(tg, st.seen_tg) THEN Append(@.tg, tg) ELSE @.tg,
                     drive |-> IF IsNew(gd, st.seen_drive) THEN Append(@.drive, gd) ELSE @.drive]],
     seen_tg    |-> IF IsNew(tg, st.seen_tg) THEN st.seen_tg \cup {tg} ELSE st.seen_tg,
     seen_drive |-> IF IsNew(gd, st.seen_drive) THEN st.seen_drive \cup {gd} ELSE st.seen_drive]

\* lines 151-162: an anchor that is neither kind of link is skipped before
\* its label is looked for
GroupLinksSlotFirst(st, tg, gd, label) ==
    AddUnseen(st, tg, gd, label, SetDefault(st.grouped, label))
GroupLinks(st, tg, gd, label) ==
    IF tg = None /\ gd = None THEN st
    ELSE AddUnseen(st, tg, gd, label, SetDefault(st.grouped, label))

\* a["href"].strip()
Href(doc, a) == Strip(NodeAt(doc, a).href)

\* the body of the loop over the anchors, for the anchor at path a
ProcessAnchor(doc, a, st) ==
    GroupLinks(st, _clean_tg_url(Href(doc, a)), _clean_drive_url(Href(doc, a)),
               _guess_label_for_anchor(doc, a))

(***************************************************************************)
(* json.loads(data)["url"], for bodies that are a flat object of string    *)
(* members without escapes, or that do not start like a JSON value.        *)
(***************************************************************************)
\* a JSON string at i: [ok, val, next]
JsonString(s, i) ==
    LET j == IF i <= Len(s) /\ s[i] = "\"" THEN IndexOf(s, "\"", i + 1) ELSE 0
    IN  IF j = 0 THEN [ok |-> FALSE, val |-> <<>>, next |-> i]
        ELSE [ok |-> TRUE, val |-> Slice(s, i + 1, j), next |-> j + 1]

\* the members from i on, up to the closing brace: [ok, obj], obj a sequence
\* of <<key, value>> pairs
RECURSIVE JsonMembers(_, _, _)
JsonMembers(s, i, acc) ==
    LET k   == JsonString(s, SkipSpaces(s, i))
        c   == SkipSpaces(s, k.next)
        v   == JsonString(s, SkipSpaces(s, c + 1))
        e   == SkipSpaces(s, v.next)
        obj == Append(acc, << k.val, v.val >>)
    IN  IF ~k.ok \/ c > Len(s) \/ s[c] # ":" \/ ~v.ok \/ e > Len(s) THEN [ok |-> FALSE, obj |-> <<>>]
        ELSE IF s[e] = "}" THEN [ok |-> SkipSpaces(s, e + 1) > Len(s), obj |-> obj]
        ELSE IF s[e] = "," THEN JsonMembers(s, e + 1, obj)
        ELSE [ok |-> FALSE, obj |-> <<>>]

json_loads(data) ==
    LET i == SkipSpaces(data, 1)
        j == SkipSpaces(data, i + 1)
    IN  IF i > Len(data) \/ data[i] # "{" THEN [ok |-> FALSE, obj |-> <<>>]
        ELSE IF j <= Len(data) /\ data[j] = "}"
             THEN [ok |-> SkipSpaces(data, j + 1) > Len(data), obj |-> <<>>]
        ELSE JsonMembers(data, j, <<>>)

\* obj[key]: the last member of that name
HasKey(obj, key) == \E i \in DOMAIN obj : obj[i][1] = key
GetKey(obj, key) ==
    obj[CHOOSE i \in DOMAIN obj : obj[i][1] = key /\ \A j \in DOMAIN obj : obj[j][1] = key => j <= i][2]

JSON_DECODE_ERROR == <<"E","x","p","e","c","t","i","n","g"," ","v","a","l","u","e",":"," ","l","i","n","e"," ","1"," ","c","o","l","u","m","n"," ","1"," ","(","c","h","a","r"," ","0",")">>
KEY_ERROR == <<"'","u","r","l","'">>

(***************************************************************************)
(* uni: what it makes of the bypass service's response body.               *)
(* [raised, value]: the exception's text, or the returned string.          *)
(***************************************************************************)
MESSAGE == <<"m","e","s","s","a","g","e">>

\* j["url"], j what json.loads made of the body
UrlMember(j) ==
    IF ~j.ok THEN [raised |-> TRUE, value |-> JSON_DECODE_ERROR]
    ELSE IF ~HasKey(j.obj, <<"u","r","l">>) THEN [raised |-> TRUE, value |-> KEY_ERROR]
    ELSE [raised |-> FALSE, value |-> GetKey(j.obj, <<"u","r","l">>)]

uni(data) ==
    IF Contains(data, MESSAGE) THEN [raised |-> FALSE, value |-> data]
    ELSE UrlMember(json_loads(data))

(***************************************************************************)
(* The results of extract_everything_from_any_input                        *)
(***************************************************************************)
TAG_ERROR == <<"[","E","R","R","O","R","]"," ">>
TAG_BYPASS == <<"[","B","Y","P","A","S","S"," ","A","P","I","]"," ">>
TAG_EXTRACT == <<"[","E","R","R","O","R"," ","e","x","t","r","a","c","t","i","n","g"," ","l","i","n","k","s","]"," ">>

ERR_NO_ID_REDIRECT == <<"C","o","u","l","d"," ","n","o","t"," ","f","i","n","d"," ","?","i","d","=">> \o << "&hellip;" >> \o <<" ","i","n"," ","r","e","d","i","r","e","c","t","e","d"," ","p","a","g","e",".">>
ERR_NO_ID_TEJTIME == <<"C","o","u","l","d"," ","n","o","t"," ","e","x","t","r","a","c","t"," ","i","d"," ","f","r","o","m"," ","t","e","j","t","i","m","e","2","4"," ","U","R","L",".">>
ERR_UNSUPPORTED == <<"P","l","e","a","s","e"," ","s","e","n","d"," ","a"," ","l","i","n","k","s","h","o","r","t","i","f","y"," ","/"," ","t","e","j","t","i","m","e","2","4"," ","/"," ","l","k","s","f","y"," ","U","R","L",".">>

Result(first, title, grouped) == [first |-> first, title |-> title, grouped |-> grouped]
NoResult == Result(None, None, <<>>)

\* except Exception as e: return (f"[ERROR] {e}", "All Links", {})
ErrorResultBypassTag(e) == Result(TAG_BYPASS \o e, DEFAULT_TITLE, <<>>)
ErrorResult(e) == Result(TAG_ERROR \o e, DEFAULT_TITLE, <<>>)

\* return (f"[BYPASS API] {final_page}", "All Links", {})
BypassResult(final) == Result(TAG_BYPASS \o final, DEFAULT_TITLE, <<>>)

\* except Exception as e: return (f"[ERROR extracting links] {e}", "All Links", {})
ExtractErrorResultNoText(e) == Result(TAG_EXTRACT, DEFAULT_TITLE, <<>>)
ExtractErrorResult(e) == Result(TAG_EXTRACT \o e, DEFAULT_TITLE, <<>>)

LKSFY_BASE == <<"h","t","t","p","s",":","/","/","l","k","s","f","y",".","c","o","m","/">>

\* the URL handed to uni: f"https://lksfy.com/{lid}" for the first two shapes,
\* the URL itself for an lksfy URL
PayloadAlwaysBuilt(shape, u, lid) == LKSFY_BASE \o (IF shape = "lksfy" THEN u ELSE lid)
PayloadFor(shape, u, lid) == IF shape = "lksfy" THEN u ELSE LKSFY_BASE \o lid

\* which branch of the if / elif chain the stripped URL takes
ShapeAnyIsLksfy(u) ==
    IF ReMatch(LINKSHORTIFY_RE, u) THEN "linkshortify"
    ELSE IF ReMatch(TEJTIME_RE, u) THEN "tejtime" ELSE "lksfy"
Shape(u) ==
    IF ReMatch(LINKSHORTIFY_RE, u) THEN "linkshortify"
    ELSE IF ReMatch(TEJTIME_RE, u) THEN "tejtime"
    ELSE IF ReMatch(LKSFY_RE, u) THEN "lksfy"
    ELSE "unsupported"

(***************************************************************************)
(* The network: what the three hosts may answer                            *)
(***************************************************************************)
TIMED_OUT == <<"R","e","a","d"," ","t","i","m","e","d"," ","o","u","t","."," ","(","r","e","a","d"," ","t","i","m","e","o","u","t","=","3","0",")">>
HTTP_ERROR == <<"4","0","4"," ","C","l","i","e","n","t"," ","E","r","r","o","r",":"," ","N","o","t"," ","F","o","u","n","d"," ","f","o","r"," ","u","r","l",":"," ">>

GetResponse(u, body) == [raised |-> FALSE, exc |-> None, url |-> u, body |-> body]
GetFailure(e) == [raised |-> TRUE, exc |-> e, url |-> <<>>, body |-> <<>>]
PostResponse(body) == [raised |-> FALSE, exc |-> None, body |-> body]
PostFailure(e) == [raised |-> TRUE, exc |-> e, body |-> <<>>]
PageResponse(doc) ==
    [raised |-> FALSE, transport |-> FALSE, names_url |-> FALSE, exc |-> None, doc |-> doc]
\* requests raises: a transport failure, or raise_for_status, whose text names the URL
PageFailure(e, transport, names_url) ==
    [raised |-> TRUE, transport |-> transport, names_url |-> names_url, exc |-> e,
     doc |-> Soup(<<>>)]

Gets ==
    { GetFailure(TIMED_OUT),
      GetResponse(<<"h","t","t","p","s",":","/","/","i","n","f","o",".","t","e","j","t","i","m","e","2","4",".","c","o","m","/","g","o","?","i","d","=","a","b","c","1","2","3">>, <<>>),
      GetResponse(<<"h","t","t","p","s",":","/","/","i","n","f","o",".","t","e","j","t","i","m","e","2","4",".","c","o","m","/","g","o">>, <<"<","a"," ","h","r","e","f","=","\"","/","n","?","i","d","=","Z","z","9","\"",">">>),
      GetResponse(<<"h","t","t","p","s",":","/","/","i","n","f","o",".","t","e","j","t","i","m","e","2","4",".","c","o","m","/","g","o">>, <<"<","h","t","m","l",">","<","/","h","t","m","l",">">>) }

BODY_OK == <<"{","\"","u","r","l","\"",":","\"","h","t","t","p","s",":","/","/","p",".","i","o","/","a","\"","}">>
BODY_MESSAGE == <<"{","\"","m","e","s","s","a","g","e","\"",":","\"","I","n","v","a","l","i","d"," ","l","i","n","k","\"","}">>
BODY_URL_WITH_MESSAGE == <<"{","\"","u","r","l","\"",":","\"","h","t","t","p","s",":","/","/","p",".","i","o","/","m","e","s","s","a","g","e","\"","}">>
BODY_URL_WITH_CAPITAL_MESSAGE == <<"{","\"","u","r","l","\"",":","\"","h","t","t","p","s",":","/","/","p",".","i","o","/","M","e","s","s","a","g","e","\"","}">>
BODY_NO_URL == <<"{","\"","s","t","a","t","u","s","\"",":","\"","o","k","\"","}">>
BODY_NOT_JSON == <<"B","a","d"," ","G","a","t","e","w","a","y">>

Posts ==
    { PostFailure(TIMED_OUT) } \cup
    { PostResponse(b) : b \in { BODY_OK, BODY_MESSAGE, BODY_URL_WITH_MESSAGE,
                                BODY_URL_WITH_CAPITAL_MESSAGE, BODY_NO_URL, BODY_NOT_JSON } }

PageFailures == { PageFailure(TIMED_OUT, TRUE, FALSE), PageFailure(HTTP_ERROR, FALSE, TRUE) }

(***************************************************************************)
(* Pages                                                                   *)
(***************************************************************************)
MaxAnchors == 3
MaxDepth == 4

TG_LINK == <<"h","t","t","p","s",":","/","/","t",".","m","e","/","c","1">>
DRIVE_LINK == <<"h","t","t","p","s",":","/","/","d","r","i","v","e",".","g","o","o","g","l","e",".","c","o","m","/","d">>
LABEL_1 == <<"E","1">>
LABEL_2 == <<"E","2">>
PLAIN == <<"x">>

Anchor(href, t) == Tag("a", href, << Str(t) >>)

\* the anchors a flat page is made of: the same chat link under two labels and,
\* with noise around it, under the first again; a storage link with and
\* without a label; a link of neither category
AnchorKinds ==
    << Anchor(TG_LINK, LABEL_1),
       Anchor(TG_LINK, LABEL_2),
       Anchor(<<" ","h","t","t","p","s",":","/","/","t",".","m","e","/","c","1","\"","x"," ">>, LABEL_1),
       Anchor(DRIVE_LINK, LABEL_2),
       Anchor(DRIVE_LINK, PLAIN),
       Anchor(<<"h","t","t","p","s",":","/","/","x",".","i","o","/">>, LABEL_1) >>

Page(title, kids) ==
    Soup(<< Tag("html", None,
              << Tag("head", None, << Tag("title", None, title) >>),
                 Tag("body", None, kids) >>) >>)

\* a page whose body holds the anchors picked by ks, one after the other
FlatPage(ks) == Page(<< Str(<<" ","M","y"," "," ","p","a","g","e"," ">>) >>, [i \in DOMAIN ks |-> AnchorKinds[ks[i]]])

\* the pages of at most n anchors of different kinds
FlatPages(n) ==
    { FlatPage(ks) :
        ks \in UNION { { f \in [1..m -> DOMAIN AnchorKinds] :
                            \A i, j \in 1..m : f[i] = f[j] => i = j } : m \in 0..n } }

\* A spine page: one chat anchor below depth wrappers.  The anchor has one
\* sibling more before it than the sibling loop looks at, and one after it;
\* every wrapper has one sibling more before it than the hops loop looks at.
\* A position <<level, k>> is the k-th sibling before the spine at that
\* level (level 0: the anchor; k = 0 its own text, k = -1 the sibling after).
SiblingsBefore(level) ==
    IF level = 0 THEN MAX_PREV_SIBLINGS + 1 ELSE MAX_PARENT_SIBLING_HOPS + 1

Positions(depth) ==
    { << 0, k >> : k \in -1..SiblingsBefore(0) }
    \cup { << l, k >> : l \in 1..depth, k \in 1..SiblingsBefore(1) }

\* labelled maps some positions to the label text found there
TextAt(labelled, pos, default) ==
    IF pos \in DOMAIN labelled THEN labelled[pos] ELSE default

SiblingNode(labelled, pos) ==
    IF pos \in DOMAIN labelled THEN Tag("b", None, << Str(labelled[pos]) >>)
    ELSE Tag("br", None, <<>>)

RECURSIVE SpineKids(_, _)
SpineKids(labelled, level) ==
    LET n == SiblingsBefore(level)
    IN  [i \in 1..n |-> SiblingNode(labelled, << level, n + 1 - i >>)]
        \o (IF level = 0
            THEN << Anchor(TG_LINK, TextAt(labelled, << 0, 0 >>, PLAIN)),
                    SiblingNode(labelled, << 0, -1 >>) >>
            ELSE << Tag("div", None, SpineKids(labelled, level - 1)) >>)

SpinePage(depth, labelled) == Soup(SpineKids(labelled, depth))

Rank(pos) == 100 * pos[1] + pos[2]

\* the positions at the edges of what the loops reach: the nearest sibling,
\* the last one a loop looks at, the first one it does not
EdgePositions(depth) ==
    { pos \in Positions(depth) :
        pos[2] \in { -1, 0, 1, SiblingsBefore(pos[1]) - 1, SiblingsBefore(pos[1]) } }

\* no label, one label anywhere, or two different labels at two edge positions
OrderedPairs(depth) ==
    { pq \in EdgePositions(depth) \X EdgePositions(depth) : Rank(pq[1]) < Rank(pq[2]) }

Labellings(depth) ==
    { << >> }
    \cup { (a :> LABEL_1) : a \in Positions(depth) }
    \cup { (pq[1] :> LABEL_1) @@ (pq[2] :> LABEL_2) : pq \in OrderedPairs(depth) }

SpinePages == UNION { { SpinePage(d, lab) : lab \in Labellings(d) } : d \in 0..MaxDepth }

\* The pages of the end-to-end scenario: a chat anchor with the text
\* "Episode 01" and, gap nodes later at the same level, a storage anchor
\* with the text "click"; the nodes between hold no label.
SCENARIO_TG == <<"h","t","t","p","s",":","/","/","t",".","m","e","/","c","h","a","n","1">>
SCENARIO_DRIVE == <<"h","t","t","p","s",":","/","/","d","r","i","v","e",".","g","o","o","g","l","e",".","c","o","m","/","f","i","l","e","/","d","/","x","y","z">>
SCENARIO_LABEL == <<"E","p","i","s","o","d","e"," ","0","1">>

Fillers == { Str(<<"\n">>), Tag("br", None, <<>>), Tag("span", None, << Str(<<"m","i","r","r","o","r">>) >>) }

ScenarioKids(gap, filler) ==
    << Anchor(SCENARIO_TG, SCENARIO_LABEL) >>
    \o [i \in 1..(gap - 1) |-> filler]
    \o << Anchor(SCENARIO_DRIVE, <<"c","l","i","c","k">>) >>

RECURSIVE Wrapped(_, _)
Wrapped(kids, depth) ==
    IF depth = 0 THEN kids ELSE << Tag("div", None, Wrapped(kids, depth - 1)) >>

ScenarioPages ==
    { Soup(Wrapped(ScenarioKids(gap, f), d)) :
        gap \in { MAX_PREV_SIBLINGS + 2, MAX_PREV_SIBLINGS + 3 }, f \in Fillers, d \in 0..MaxDepth }

World(gets, posts, failures, docs) ==
    [gets |-> gets, posts |-> posts, pages |-> failures \cup { PageResponse(d) : d \in docs }]

\* the networks of the specifications: of one whole resolution, of the page
\* extractor on its own, of the concurrent resolutions
ParGets == { GetResponse(<<"h","t","t","p","s",":","/","/","i","n","f","o",".","t","e","j","t","i","m","e","2","4",".","c","o","m","/","g","o","?","i","d","=","a","b","c","1","2","3">>, <<>>) }
ParPosts == { PostResponse(BODY_OK), PostResponse(BODY_MESSAGE) }
ParDocs == { FlatPage(<< 1, 3 >>), FlatPage(<< 5, 2 >>) }

Worlds ==
    [all   |-> World(Gets, Posts, PageFailures, FlatPages(2)),
     pages |-> World({}, {}, PageFailures,
                     SpinePages \cup FlatPages(MaxAnchors) \cup ScenarioPages),
     par   |-> World(ParGets, ParPosts, { PageFailure(TIMED_OUT, TRUE, FALSE) }, ParDocs)]

(***************************************************************************)
(* The state.  Every variable is a function of the worker: handle_text     *)
(* runs each resolution in a thread of its own (asyncio.to_thread), and    *)
(* everything below the module's constants is local to one call.           *)
(***************************************************************************)
NWorkers == 2
Workers == 1..NWorkers

VARIABLES
    active,      \* the workers that run in this behaviour
    world,       \* which network the behaviour runs in: a name of Worlds
    text,        \* handle_text: update.message.text, None for a direct call
    pc,          \* where the worker is
    url_in,      \* the argument of extract_everything_from_any_input
    url,         \* its local url, stripped
    payload,     \* the URL handed to uni
    final_page,  \* the local final_page
    soup,        \* the parsed page, a one-element sequence once parsed
    idx,         \* the position of the loop over soup.find_all
    ext,         \* the locals grouped, seen_tg, seen_drive, keyed by SeenKey
    ret,         \* the tuple extract_everything_from_any_input returned
    replies,     \* the messages handle_text sent
    net,         \* the network calls issued: [get, post, fetch, payloads]
    hist         \* what happened: the stage that ended the call, whether a
                 \* transport failure did, the exception's text, and the
                 \* responses received: [stage, transport, exc, get, post, page]

vars == << active, world, text, pc, url_in, url, payload, final_page, soup, idx,
           ext, ret, replies, net, hist >>

\* seen_tg, seen_drive and grouped are locals of the call (lines 144-145):
\* each worker has its own
SeenKeyShared(p) == 1
SeenKey(p) == p

NoNet == [get |-> 0, post |-> 0, fetch |-> 0, payloads |-> <<>>]
NoHist == [stage |-> "none", transport |-> FALSE, exc |-> None,
           get |-> <<>>, post |-> <<>>, page |-> <<>>]

Set(f, p, v) == [f EXCEPT ![p] = v]

(***************************************************************************)
(* handle_text, up to the call of the resolver                             *)
(***************************************************************************)
\* the first of the three patterns that is found in the text: m.group(0)
PickUrl(t) ==
    FirstOf(ReSearch(LINKSHORTIFY_RE, t),
      FirstOf(ReSearch(TEJTIME_RE, t), ReSearch(LKSFY_RE, t)))

REPLY_INVALID == <<"P","l","e","a","s","e"," ","s","e","n","d"," ","a"," ","v","a","l","i","d"," ","l","i","n","k","s","h","o","r","t","i","f","y"," ","/"," ","t","e","j","t","i","m","e","2","4"," ","/"," ","l","k","s","f","y"," ","U","R","L",".">>
REPLY_NO_LINKS == <<"N","o"," ","T","e","l","e","g","r","a","m","/","D","r","i","v","e"," ","l","i","n","k","s"," ","f","o","u","n","d",".">>

TextReply(t) == [kind |-> "text", text |-> t, rows |-> <<>>]

HandleText(p) ==
    /\ p \in active
    /\ pc[p] = "handle_text"
    /\ \E u \in { PickUrl(Strip(text[p])) } :
           IF Len(text[p]) = 0
           THEN /\ pc' = Set(pc, p, "end")
                /\ UNCHANGED << url_in, replies >>
           ELSE IF u = None
           THEN /\ pc' = Set(pc, p, "end")
                /\ replies' = Set(replies, p, Append(replies[p], TextReply(REPLY_INVALID)))
                /\ UNCHANGED url_in
           ELSE /\ pc' = Set(pc, p, "resolve")
                /\ url_in' = Set(url_in, p, u)
                /\ UNCHANGED replies
    /\ UNCHANGED << active, world, text, url, payload, final_page, soup, idx, ext,
                    ret, net, hist >>

(***************************************************************************)
(* extract_everything_from_any_input                                       *)
(***************************************************************************)
\* the function returns r; stage and exc say where and why it failed
Return(p, r, h, stage, transport, exc) ==
    /\ ret' = Set(ret, p, r)
    /\ pc' = Set(pc, p, "returned")
    /\ hist' = Set(hist, p, [h EXCEPT !.stage = stage, !.transport = transport, !.exc = exc])

\* lines 176-189: strip, then the if / elif chain up to the first network call
Dispatch(p) ==
    /\ p \in active
    /\ pc[p] = "resolve"
    /\ \E u \in { Strip(url_in[p]) } :
       \E shape \in { Shape(u) }, lid \in { extract_id_from_url(u, <<>>) } :
           /\ url' = Set(url, p, u)
           /\ CASE shape = "linkshortify" ->
                    /\ pc' = Set(pc, p, "get")
                    /\ UNCHANGED << payload, ret, hist >>
                [] shape = "tejtime" /\ lid = None ->
                    /\ Return(p, ErrorResult(ERR_NO_ID_TEJTIME), hist[p], "input", FALSE, ERR_NO_ID_TEJTIME)
                    /\ UNCHANGED payload
                [] shape = "tejtime" /\ lid # None ->
                    /\ pc' = Set(pc, p, "post")
                    /\ payload' = Set(payload, p, PayloadFor("tejtime", u, lid))
                    /\ UNCHANGED << ret, hist >>
                [] shape = "lksfy" ->
                    /\ pc' = Set(pc, p, "post")
                    /\ payload' = Set(payload, p, PayloadFor("lksfy", u, lid))
                    /\ UNCHANGED << ret, hist >>
                [] OTHER ->
                    /\ Return(p, ErrorResult(ERR_UNSUPPORTED), hist[p], "input", FALSE, ERR_UNSUPPORTED)
                    /\ UNCHANGED payload
    /\ UNCHANGED << active, world, text, url_in, final_page, soup, idx, ext, replies, net >>

\* linkshortify_to_lksfy: the GET that follows the redirects, then the id
LinkshortifyGet(p) ==
    /\ p \in active
    /\ pc[p] = "get"
    /\ net' = Set(net, p, [net[p] EXCEPT !.get = @ + 1])
    /\ \E r \in Worlds[world].gets :
         \E lid \in { extract_id_from_url(r.url, r.body) },
            h \in { [hist[p] EXCEPT !.get = << r >>] } :
             CASE r.raised ->
                    /\ Return(p, ErrorResult(r.exc), h, "get", TRUE, r.exc)
                    /\ UNCHANGED payload
               [] ~r.raised /\ lid = None ->
                    /\ Return(p, ErrorResult(ERR_NO_ID_REDIRECT), h, "input", FALSE, ERR_NO_ID_REDIRECT)
                    /\ UNCHANGED payload
               [] OTHER ->
                    /\ pc' = Set(pc, p, "post")
                    /\ payload' = Set(payload, p, PayloadFor("linkshortify", url[p], lid))
                    /\ hist' = Set(hist, p, h)
                    /\ UNCHANGED ret
    /\ UNCHANGED << active, world, text, url_in, url, final_page, soup, idx, ext, replies >>

\* uni(payload): the POST, what uni makes of the body, and line 193
BypassPost(p) ==
    /\ p \in active
    /\ pc[p] = "post"
    /\ net' = Set(net, p, [net[p] EXCEPT !.post = @ + 1,
                                         !.payloads = Append(@, payload[p])])
    /\ \E r \in Worlds[world].posts :
         \E u \in { uni(r.body) }, h \in { [hist[p] EXCEPT !.post = << r >>] } :
             CASE r.raised ->
                    /\ Return(p, ErrorResult(r.exc), h, "post", TRUE, r.exc)
                    /\ UNCHANGED final_page
               [] ~r.raised /\ u.raised ->
                    /\ Return(p, ErrorResult(u.value), h, "uni", FALSE, u.value)
                    /\ UNCHANGED final_page
               [] ~r.raised /\ ~u.raised /\ Contains(Lower(u.value), MESSAGE) ->
                    /\ Return(p, BypassResult(u.value), h, "bypass", FALSE, None)
                    /\ final_page' = Set(final_page, p, u.value)
               [] OTHER ->
                    /\ pc' = Set(pc, p, "fetch")
                    /\ final_page' = Set(final_page, p, u.value)
                    /\ hist' = Set(hist, p, h)
                    /\ UNCHANGED ret
    /\ UNCHANGED << active, world, text, url_in, url, payload, soup, idx, ext, replies >>

(***************************************************************************)
(* extract_title_and_labeled_links, called from line 197                   *)
(***************************************************************************)
\* lines 138-145: the GET, raise_for_status, the parse, the fresh locals
PageGet(p) ==
    /\ p \in active
    /\ pc[p] = "fetch"
    /\ net' = Set(net, p, [net[p] EXCEPT !.fetch = @ + 1])
    /\ \E r \in Worlds[world].pages :
         \E e \in { r.exc \o (IF r.names_url THEN final_page[p] ELSE <<>>) },
            h \in { [hist[p] EXCEPT !.page = << r >>] } :
             IF r.raised
             THEN /\ Return(p, ExtractErrorResult(e), h, "fetch", r.transport, e)
                  /\ UNCHANGED << soup, idx, ext >>
             ELSE /\ soup' = Set(soup, p, << r.doc >>)
                  /\ idx' = Set(idx, p, 1)
                  /\ ext' = Set(ext, SeenKey(p), EmptyExtraction)
                  /\ pc' = Set(pc, p, "extract")
                  /\ hist' = Set(hist, p, h)
                  /\ UNCHANGED ret
    /\ UNCHANGED << active, world, text, url_in, url, payload, final_page, replies >>

\* one turn of the loop of lines 147-162
ExtractAnchor(p) ==
    /\ p \in active
    /\ pc[p] = "extract"
    /\ idx[p] <= Len(find_all_a(soup[p][1]))
    /\ ext' = Set(ext, SeenKey(p),
                  ProcessAnchor(soup[p][1], find_all_a(soup[p][1])[idx[p]], ext[SeenKey(p)]))
    /\ idx' = Set(idx, p, idx[p] + 1)
    /\ UNCHANGED << active, world, text, pc, url_in, url, payload, final_page, soup,
                    ret, replies, net, hist >>

\* line 164, then line 198: return (final_page, title, grouped)
ExtractReturn(p) ==
    /\ p \in active
    /\ pc[p] = "extract"
    /\ idx[p] > Len(find_all_a(soup[p][1]))
    /\ Return(p, Result(final_page[p], PageTitle(soup[p][1]), ext[SeenKey(p)].grouped),
              hist[p], "ok", FALSE, None)
    /\ UNCHANGED << active, world, text, url_in, url, payload, final_page, soup, idx,
                    ext, replies, net >>

(***************************************************************************)
(* handle_text, after the resolver returned                                *)
(***************************************************************************)
NO_NUMBER == 1000000000
MAX_ROWS == 25
INVISIBLE == << "&#x2063;" >>

DigitValue(c) == (CHOOSE k \in 1..10 : Digits[k] = c) - 1

RECURSIVE IntOf(_, _, _)
IntOf(s, i, acc) ==
    IF i <= Len(s) /\ IsDigit(s[i]) THEN IntOf(s, i + 1, 10 * acc + DigitValue(s[i])) ELSE acc

RECURSIVE FirstDigit(_, _)
FirstDigit(s, i) == IF i > Len(s) THEN 0 ELSE IF IsDigit(s[i]) THEN i ELSE FirstDigit(s, i + 1)

\* the first run of digits as an integer, 10**9 when there is none
_label_sort_key(label) ==
    IF FirstDigit(label, 1) = 0 THEN NO_NUMBER ELSE IntOf(label, FirstDigit(label, 1), 0)

\* sorted(..., key=_label_sort_key): stable, so a slot goes after the slots of an equal key
RECURSIVE InsertSlot(_, _)
InsertSlot(sorted, slot) ==
    IF sorted = <<>> THEN << slot >>
    ELSE IF _label_sort_key(slot.label) < _label_sort_key(Head(sorted).label)
         THEN << slot >> \o sorted
         ELSE << Head(sorted) >> \o InsertSlot(Tail(sorted), slot)

RECURSIVE SortSlots(_, _)
SortSlots(grouped, n) ==
    IF n = 0 THEN <<>> ELSE InsertSlot(SortSlots(grouped, n - 1), grouped[n])

\* the buttons of one slot: its tg links, then its drive links; a button is
\* [label, kind, n, url], the caption being tag, kind and n
SlotButtons(slot) ==
    [i \in 1..Len(slot.tg) |-> [label |-> slot.label, kind |-> "TG", n |-> i, url |-> slot.tg[i]]]
    \o [i \in 1..Len(slot.drive) |->
            [label |-> slot.label, kind |-> "Drive", n |-> i, url |-> slot.drive[i]]]

RECURSIVE ButtonsOf(_)
ButtonsOf(slots) ==
    IF slots = <<>> THEN <<>> ELSE SlotButtons(Head(slots)) \o ButtonsOf(Tail(slots))

Buttons(grouped) == ButtonsOf(SortSlots(grouped, Len(grouped)))

\* [seq[i:i+n] for i in range(0, len(seq), n)]
Chunks(seq, n) ==
    [k \in 1..((Len(seq) + n - 1) \div n) |->
        SubSeq(seq, (k - 1) * n + 1, IF k * n < Len(seq) THEN k * n ELSE Len(seq))]

\* the replies of lines 238-266 for the returned tuple r
RepliesFor(r) ==
    LET buttons == Buttons(r.grouped)
        pages   == Chunks(Chunks(buttons, 2), MAX_ROWS)
    IN  IF r.grouped = <<>> THEN << TextReply(r.first) >>
        ELSE IF buttons = <<>> THEN << TextReply(REPLY_NO_LINKS) >>
        ELSE [k \in 1..Len(pages) |->
                [kind |-> "keyboard",
                 text |-> IF k = 1 THEN <<"<","b",">">> \o r.title \o <<"<","/","b",">">> ELSE INVISIBLE,
                 rows |-> pages[k]]]

Present(p) ==
    /\ p \in active
    /\ pc[p] = "returned"
    /\ text[p] # None
    /\ replies' = Set(replies, p, replies[p] \o RepliesFor(ret[p]))
    /\ pc' = Set(pc, p, "end")
    /\ UNCHANGED << active, world, text, url_in, url, payload, final_page, soup, idx,
                    ext, ret, net, hist >>

(***************************************************************************)
(* Initial states and specifications                                       *)
(***************************************************************************)
\* arguments of a direct call of extract_everything_from_any_input
Inputs ==
    { <<"h","t","t","p","s",":","/","/","l","k","s","f","y",".","c","o","m","/","a","b","c","1","2","3">>,
      <<" ","h","t","t","p","s",":","/","/","l","k","s","f","y",".","c","o","m","/","a","b","c","1","2","3","\n">>,
      <<"H","T","T","P",":","/","/","W","W","W",".","L","K","S","F","Y",".","C","O","M","/","x">>,
      <<"h","t","t","p","s",":","/","/","i","n","f","o",".","t","e","j","t","i","m","e","2","4",".","c","o","m","/","g","o","?","i","d","=","a","b","c","1","2","3">>,
      <<"h","t","t","p","s",":","/","/","i","n","f","o",".","t","e","j","t","i","m","e","2","4",".","c","o","m","/","g","o","?","x","=","1">>,
      <<"h","t","t","p","s",":","/","/","l","i","n","k","s","h","o","r","t","i","f","y",".","c","o","m","/","f","u","l","l","?","u","=","1">>,
      <<"h","t","t","p","s",":","/","/","l","i","n","k","s","h","o","r","t","i","f","y",".","c","o","m","/","o","t","h","e","r">>,
      <<"h","t","t","p","s",":","/","/","e","x","a","m","p","l","e",".","c","o","m","/","n","o","t","-","s","u","p","p","o","r","t","e","d">>,
      <<"h","t","t","p","s",":","/","/","l","k","s","f","y",".","c","o","m","/">>,
      <<"s","e","e"," ","h","t","t","p","s",":","/","/","l","k","s","f","y",".","c","o","m","/","a","b","c","1","2","3">>,
      <<"f","t","p",":","/","/","l","k","s","f","y",".","c","o","m","/","a","b","c","1","2","3">>,
      << >> }

\* texts of a message handle_text receives
Texts ==
    { <<"h","e","l","l","o">>,
      <<" "," "," ">>,
      <<"g","o"," ","h","t","t","p","s",":","/","/","l","k","s","f","y",".","c","o","m","/","a","b","c","1","2","3","\t"," ","n","o","w">>,
      <<"h","t","t","p","s",":","/","/","l","k","s","f","y",".","c","o","m","/","z","z","z"," ","o","r"," ","h","t","t","p","s",":","/","/","i","n","f","o",".","t","e","j","t","i","m","e","2","4",".","c","o","m","/","g","o","?","i","d","=","a","b","c","1","2","3">>,
      <<"h","t","t","p","s",":","/","/","i","n","f","o",".","t","e","j","t","i","m","e","2","4",".","c","o","m","/","g","o","?","x","=","1">>,
      <<"s","e","e"," ","h","t","t","p","s",":","/","/","l","i","n","k","s","h","o","r","t","i","f","y",".","c","o","m","/","f","u","l","l","?","u","=","1">> }

ViaHandleText(t) == [text |-> t, url_in |-> None, pc |-> "handle_text"]
DirectCall(u) == [text |-> None, url_in |-> u, pc |-> "resolve"]

\* the workers of act start as e says; the others stay idle
Start(act, w, e) ==
    /\ active = act
    /\ world = w
    /\ text = [p \in Workers |-> IF p \in act THEN e[p].text ELSE None]
    /\ url_in = [p \in Workers |-> IF p \in act THEN e[p].url_in ELSE None]
    /\ pc = [p \in Workers |-> IF p \in act THEN e[p].pc ELSE "idle"]
    /\ url = [p \in Workers |-> None]
    /\ payload = [p \in Workers |-> None]
    /\ final_page = [p \in Workers |-> None]
    /\ soup = [p \in Workers |-> << >>]
    /\ idx = [p \in Workers |-> 0]
    /\ ext = [p \in Workers |-> EmptyExtraction]
    /\ ret = [p \in Workers |-> NoResult]
    /\ replies = [p \in Workers |-> << >>]
    /\ net = [p \in Workers |-> NoNet]
    /\ hist = [p \in Workers |-> NoHist]

\* one resolution, called directly or by handle_text
Init ==
    \E e \in [{1} -> { ViaHandleText(t) : t \in Texts } \cup { DirectCall(u) : u \in Inputs }] :
        Start({1}, "all", e)

Next ==
    \E p \in Workers :
        \/ HandleText(p)
        \/ Dispatch(p)
        \/ LinkshortifyGet(p)
        \/ BypassPost(p)
        \/ PageGet(p)
        \/ ExtractAnchor(p)
        \/ ExtractReturn(p)
        \/ Present(p)

Spec == Init /\ [][Next]_vars

\* The page extractor on its own: the state at line 197, the bypass service
\* having answered BODY_OK, with every page of the three families.
FINAL_PAGE == <<"h","t","t","p","s",":","/","/","p",".","i","o","/","a">>

InitExtract ==
    /\ active = {1}
    /\ world = "pages"
    /\ text = [p \in Workers |-> None]
    /\ url_in = [p \in Workers |-> IF p = 1 THEN <<"h","t","t","p","s",":","/","/","l","k","s","f","y",".","c","o","m","/","a","b","c","1","2","3">> ELSE None]
    /\ pc = [p \in Workers |-> IF p = 1 THEN "fetch" ELSE "idle"]
    /\ url = url_in
    /\ payload = url_in
    /\ final_page = [p \in Workers |-> IF p = 1 THEN FINAL_PAGE ELSE None]
    /\ soup = [p \in Workers |-> << >>]
    /\ idx = [p \in Workers |-> 0]
    /\ ext = [p \in Workers |-> EmptyExtraction]
    /\ ret = [p \in Workers |-> NoResult]
    /\ replies = [p \in Workers |-> << >>]
    /\ net = [p \in Workers |->
                IF p = 1 THEN [NoNet EXCEPT !.post = 1, !.payloads = << <<"h","t","t","p","s",":","/","/","l","k","s","f","y",".","c","o","m","/","a","b","c","1","2","3">> >>]
                ELSE NoNet]
    /\ hist = [p \in Workers |->
                IF p = 1 THEN [NoHist EXCEPT !.post = << PostResponse(BODY_OK) >>] ELSE NoHist]

NextExtract ==
    \E p \in Workers :
        \/ PageGet(p)
        \/ ExtractAnchor(p)
        \/ ExtractReturn(p)

SpecExtract == InitExtract /\ [][NextExtract]_vars

\* Every worker resolves the URL of a message of its own, concurrently.
ParTexts == { <<"s","e","e"," ","h","t","t","p","s",":","/","/","l","i","n","k","s","h","o","r","t","i","f","y",".","c","o","m","/","f","u","l","l","?","u","=","1">> }
InitPar ==
    \E e \in [Workers -> { ViaHandleText(t) : t \in ParTexts }] :
        Start(Workers, "par", e)

SpecPar == InitPar /\ [][Next]_vars

(***************************************************************************)
(* Properties                                                              *)
(***************************************************************************)
Returned(p) == p \in active /\ pc[p] \in {"returned", "end"}
Parsed(p) == p \in active /\ soup[p] # << >>
\* the resolver was called and has returned
Resolved(p) == Returned(p) /\ hist[p].stage # "none"
Failed(p) == Resolved(p) /\ hist[p].stage # "ok"

\* the n nearest siblings before a node, nearest first
SiblingsBeforeNode(path, n) ==
    IF path = << >> THEN << >>
    ELSE [j \in 1..(IF path[Len(path)] - 1 < n THEN path[Len(path)] - 1 ELSE n) |->
            [path EXCEPT ![Len(path)] = @ - j]]

Ancestor(a, k) == SubSeq(a, 1, Len(a) - k)

\* the k-th ancestor and the siblings before it, for k = from .. the last ancestor looked at
RECURSIVE AncestorLocations(_, _)
AncestorLocations(a, from) ==
    IF from > MAX_PARENTS \/ from > Len(a) THEN << >>
    ELSE << Ancestor(a, from) >>
         \o SiblingsBeforeNode(Ancestor(a, from), MAX_PARENT_SIBLING_HOPS)
         \o AncestorLocations(a, from + 1)

\* the locations of the search, in its order
SearchOrder(a) ==
    << a >> \o SiblingsBeforeNode(a, MAX_PREV_SIBLINGS) \o AncestorLocations(a, 1)

Hits(doc, a) ==
    LET order == SearchOrder(a)
    IN  { i \in DOMAIN order : LabelAt(doc, order[i]) # None }

FirstLabelInOrder(doc, a) ==
    LET hits == Hits(doc, a)
    IN  IF hits = {} THEN SENTINEL ELSE LabelAt(doc, SearchOrder(a)[Min(hits)])

Classified(doc, a) ==
    \/ _clean_tg_url(Strip(NodeAt(doc, a).href)) # None
    \/ _clean_drive_url(Strip(NodeAt(doc, a).href)) # None

\* the anchors the loop has been through
Processed(p) == 1..(idx[p] - 1)

\* C1: the label of an anchor is the label at the first location that holds
\* one, the locations taken in the order: the anchor's own text; its 8 nearest
\* previous siblings, nearest first; then for each of its 4 nearest ancestors
\* the ancestor's whole text and the ancestor's 6 nearest previous siblings.
\* It is the sentinel "Episode ?" exactly when no location holds a label, and
\* the slot of every classified anchor the loop went through has that label.
C1_FirstLocationWins ==
    \A p \in Workers : Parsed(p) =>
        LET doc == soup[p][1]
            as  == find_all_a(doc)
        IN  \A k \in DOMAIN as :
              LET a     == as[k]
                  guess == _guess_label_for_anchor(doc, a)
                  first == FirstLabelInOrder(doc, a)
              IN  /\ idx[p] = 1 =>
                        /\ guess = first
                        /\ (guess = SENTINEL) <=> (Hits(doc, a) = {})
                  /\ (k \in Processed(p) /\ Classified(doc, a))
                        => first \in Labels(ext[p].grouped)

\* a page was extracted whose anchor took its label from a previous sibling
\* of an ancestor two or more levels up, no nearer location holding a label
C1_Witness ==
    \E p \in Workers :
        /\ Returned(p) /\ Parsed(p)
        /\ \E a \in Range(find_all_a(soup[p][1])) :
             /\ Hits(soup[p][1], a) # {}
             /\ LET loc == SearchOrder(a)[Min(Hits(soup[p][1], a))]
                IN  /\ Len(loc) < Len(a) - 1
                    /\ loc # Ancestor(a, Len(a) - Len(loc))
                    /\ Labels(ret[p].grouped) = { LabelAt(soup[p][1], loc) }

\* the link of category cat ("tg" or "drive") of the k-th anchor, None when it has none
LinkOf(doc, k, cat) ==
    LET href == Strip(NodeAt(doc, find_all_a(doc)[k]).href)
    IN  IF cat = "tg" THEN _clean_tg_url(href) ELSE _clean_drive_url(href)

\* the first anchor, in document order, that carries the link
FirstAnchorOf(doc, link, cat) ==
    Min({ k \in DOMAIN find_all_a(doc) : LinkOf(doc, k, cat) = link })

\* where the links of a category stand in grouped: <<slot, position>>
Occurrences(grouped, cat) ==
    UNION { { << i, j >> : j \in DOMAIN grouped[i][cat] } : i \in DOMAIN grouped }

LinkAt(grouped, cat, ij) == grouped[ij[1]][cat][ij[2]]

Deduplicated(doc, grouped, done, cat) ==
    LET occ == Occurrences(grouped, cat)
    IN  \* at most once, over all labels
        /\ \A x, y \in occ : LinkAt(grouped, cat, x) = LinkAt(grouped, cat, y) => x = y
        \* every link met is listed, under the label of its first anchor
        /\ \A k \in done : LinkOf(doc, k, cat) # None =>
              \E x \in occ :
                 /\ LinkAt(grouped, cat, x) = LinkOf(doc, k, cat)
                 /\ grouped[x[1]].label =
                      _guess_label_for_anchor(doc,
                          find_all_a(doc)[FirstAnchorOf(doc, LinkOf(doc, k, cat), cat)])
        \* nothing else is listed
        /\ \A x \in occ : \E k \in done : LinkOf(doc, k, cat) = LinkAt(grouped, cat, x)
        \* each list is in first-seen order
        /\ \A x, y \in occ : (x[1] = y[1] /\ x[2] < y[2]) =>
              FirstAnchorOf(doc, LinkAt(grouped, cat, x), cat)
                < FirstAnchorOf(doc, LinkAt(grouped, cat, y), cat)

Slot(label, tg, drive) == [label |-> label, tg |-> tg, drive |-> drive]

\* the extraction of a scenario page has returned
ScenarioExtracted(p) ==
    /\ Returned(p) /\ Parsed(p)
    /\ PageResponse(soup[p][1]) \in { PageResponse(d) : d \in ScenarioPages }

\* C6 as stated: the chat link is grouped under "Episode 01" and the storage
\* link, ten nodes later at the same level, under the sentinel "Episode ?".
C6_AsStated ==
    \A p \in Workers : ScenarioExtracted(p) =>
        ret[p].grouped = << Slot(SCENARIO_LABEL, << SCENARIO_TG >>, << >>),
                            Slot(SENTINEL, << >>, << SCENARIO_DRIVE >>) >>

\* C6, amended: both links are grouped under "Episode 01", the text of the
\* anchors' common parent holding that label, and there is no other label.
C6_BothUnderEpisode01 ==
    \A p \in Workers : ScenarioExtracted(p) =>
        ret[p].grouped = << Slot(SCENARIO_LABEL, << SCENARIO_TG >>, << SCENARIO_DRIVE >>) >>

\* a scenario page was extracted: none of the storage anchor's own text and of
\* its 8 nearest previous siblings holds a label, and its parent's text does
C6_Witness ==
    \E p \in Workers :
        /\ ScenarioExtracted(p)
        /\ LET doc == soup[p][1]
               a   == find_all_a(doc)[2]
           IN  /\ Len(find_all_a(doc)) = 2
               /\ Min(Hits(doc, a)) = 2 + MAX_PREV_SIBLINGS
               /\ SearchOrder(a)[Min(Hits(doc, a))] = parent(a)

\* the anchors among those the loop has been through that are chat or storage links
ClassifiedAmong(doc, done) == { k \in done : Classified(doc, find_all_a(doc)[k]) }

HasLinks(grouped) ==
    \E i \in DOMAIN grouped : grouped[i].tg # << >> \/ grouped[i].drive # << >>

\* C10: grouped is non-empty exactly when the loop has been through a chat or
\* storage anchor, a non-empty grouped lists at least one link, and
\* handle_text never answers "No Telegram/Drive links found.".
C10_NonEmptyGroupedHasLinks ==
    \A p \in Workers :
        /\ (Parsed(p) /\ hist[p].stage \in {"none", "ok"}) =>
              /\ (ext[p].grouped # << >>) <=> (ClassifiedAmong(soup[p][1], Processed(p)) # {})
              /\ ext[p].grouped # << >> => HasLinks(ext[p].grouped)
        /\ ret[p].grouped # << >> => HasLinks(ret[p].grouped)
        /\ \A i \in DOMAIN replies[p] : replies[p][i].text # REPLY_NO_LINKS

\* handle_text has sent the keyboard of a grouped with a label that lists no link
C10_Witness ==
    \E p \in Workers :
        /\ pc[p] = "end"
        /\ \E i \in DOMAIN replies[p] : replies[p][i].kind = "keyboard"
        /\ \E i \in DOMAIN ret[p].grouped :
              ret[p].grouped[i].tg = << >> /\ ret[p].grouped[i].drive = << >>

\* the stripped URL matches none of the three patterns
Unrecognized(u) ==
    /\ ~ReMatch(LINKSHORTIFY_RE, Strip(u))
    /\ ~ReMatch(TEJTIME_RE, Strip(u))
    /\ ~ReMatch(LKSFY_RE, Strip(u))

\* C4: a URL of none of the three shapes fails at once: the call returns the
\* input error with an empty grouped and issues no network call.
C4_UnsupportedFailsAtOnce ==
    \A p \in Workers :
        (p \in active /\ url_in[p] # None /\ Unrecognized(url_in[p])) =>
            /\ pc[p] \in {"resolve", "returned"}
            /\ net[p] = NoNet
            /\ pc[p] = "returned" =>
                  /\ ret[p] = Result(TAG_ERROR \o ERR_UNSUPPORTED, DEFAULT_TITLE, << >>)
                  /\ hist[p].stage = "input"

\* the call for "https://example.com/not-supported" has returned
C4_Witness ==
    \E p \in Workers :
        /\ pc[p] = "returned"
        /\ url_in[p] = <<"h","t","t","p","s",":","/","/","e","x","a","m","p","l","e",".","c","o","m","/","n","o","t","-","s","u","p","p","o","r","t","e","d">>
        /\ StartsWith(ret[p].first, TAG_ERROR)

\* the bypass call has been made, or an earlier step ended the call
PastBypass(p) == p \in active /\ pc[p] \in {"fetch", "extract", "returned", "end"}

\* C5 as stated: for an lksfy URL there is no GET and uni is called exactly
\* once, with the input URL unchanged.
C5_AsStated ==
    \A p \in Workers :
        (p \in active /\ url_in[p] # None /\ ReMatch(LKSFY_RE, url_in[p])) =>
            /\ net[p].get = 0
            /\ PastBypass(p) => net[p].post = 1 /\ net[p].payloads = << url_in[p] >>

\* C5, amended: for a URL that is an lksfy URL once stripped there is no GET
\* and no built URL, and uni is called exactly once, with the stripped input.
C5_StrippedInputOnce ==
    \A p \in Workers :
        (p \in active /\ url_in[p] # None /\ ReMatch(LKSFY_RE, Strip(url_in[p]))) =>
            /\ net[p].get = 0
            /\ net[p].post = (IF PastBypass(p) THEN 1 ELSE 0)
            /\ PastBypass(p) => net[p].payloads = << Strip(url_in[p]) >>

\* an lksfy URL with whitespace around it went through the bypass call
C5_Witness ==
    \E p \in Workers :
        /\ PastBypass(p)
        /\ ReMatch(LKSFY_RE, Strip(url_in[p]))
        /\ Strip(url_in[p]) # url_in[p]
        /\ net[p].post = 1

NoRetry(p) == net[p].get <= 1 /\ net[p].post <= 1 /\ net[p].fetch <= 1

\* C7 as stated: a failed resolution returns an empty grouped, retries no
\* step, and a bypass or extraction failure reports the final page URL.
C7_AsStated ==
    \A p \in Workers :
        /\ NoRetry(p)
        /\ Failed(p) =>
              /\ ret[p].grouped = << >>
              /\ hist[p].stage \in {"bypass", "fetch"} => Contains(ret[p].first, final_page[p])

\* C7, amended: a failed resolution returns an empty grouped and the default
\* title and retries no step; a bypass failure reports the string the bypass
\* step returned, without fetching any page; an extraction failure reports the
\* text of the exception, not the final page URL; any other failure reports
\* the text of its exception under the generic tag, without fetching any page.
C7_FailureIsTerminalAndEmpty ==
    \A p \in Workers :
        /\ NoRetry(p)
        /\ Failed(p) =>
              /\ ret[p].grouped = << >>
              /\ ret[p].title = DEFAULT_TITLE
              /\ hist[p].stage = "bypass" =>
                    ret[p].first = TAG_BYPASS \o final_page[p] /\ net[p].fetch = 0
              /\ hist[p].stage = "fetch" =>
                    ret[p].first = TAG_EXTRACT \o hist[p].exc /\ net[p].fetch = 1
              /\ hist[p].stage \in {"input", "get", "post", "uni"} =>
                    ret[p].first = TAG_ERROR \o hist[p].exc /\ net[p].fetch = 0

\* the fetch of a bypassed final page timed out and the result does not name that page
C7_Witness ==
    \E p \in Workers :
        /\ Failed(p)
        /\ hist[p].stage = "fetch" /\ hist[p].transport
        /\ final_page[p] = FINAL_PAGE
        /\ ~Contains(ret[p].first, final_page[p])

\* C8 as stated: a transport failure of the bypass POST is tagged as a bypass
\* error, never as an input error, and one of the page GET as an extraction error.
C8_AsStated ==
    \A p \in Workers : (Failed(p) /\ hist[p].transport) =>
        /\ hist[p].stage = "post" =>
              StartsWith(ret[p].first, TAG_BYPASS) /\ ~StartsWith(ret[p].first, TAG_ERROR)
        /\ hist[p].stage = "fetch" => StartsWith(ret[p].first, TAG_EXTRACT)

\* C8, amended: a transport failure of the redirect GET or of the bypass POST
\* is reported under the generic tag "[ERROR] ", the tag of an input error;
\* one of the page GET under the extraction tag; and the bypass tag is that of
\* the results of line 194 alone.
C8_TransportFailureTags ==
    \A p \in Workers : Failed(p) =>
        /\ hist[p].stage \in {"get", "post"} =>
              hist[p].transport /\ ret[p].first = TAG_ERROR \o hist[p].exc
        /\ hist[p].stage = "input" => StartsWith(ret[p].first, TAG_ERROR)
        /\ hist[p].stage = "fetch" =>
              StartsWith(ret[p].first, TAG_EXTRACT) /\ ~StartsWith(ret[p].first, TAG_ERROR)
        /\ StartsWith(ret[p].first, TAG_BYPASS) <=> hist[p].stage = "bypass"

\* the bypass POST timed out and the result carries the generic tag
C8_Witness ==
    \E p \in Workers :
        /\ Failed(p)
        /\ hist[p].stage = "post" /\ hist[p].transport
        /\ net[p].post = 1
        /\ ret[p].first = TAG_ERROR \o TIMED_OUT

\* C3: a body of the bypass service that contains "message" ends the
\* resolution with the bypass error carrying the body, no page fetched; the
\* url member of any other body (here: of those that are an object with a url
\* member) is the final page URL and the resolution goes on to extract it.
C3_MessageOrUrl ==
    \A p \in Workers :
        (p \in active /\ hist[p].post # << >> /\ ~hist[p].post[1].raised) =>
            LET body == hist[p].post[1].body
                j    == json_loads(body)
            IN  /\ Contains(body, MESSAGE) =>
                      /\ Returned(p)
                      /\ ret[p] = BypassResult(body)
                      /\ net[p].fetch = 0
                /\ (~Contains(body, MESSAGE) /\ j.ok /\ HasKey(j.obj, <<"u","r","l">>)) =>
                      /\ final_page[p] = GetKey(j.obj, <<"u","r","l">>)
                      /\ hist[p].stage \in {"none", "fetch", "ok"}
                      /\ Returned(p) => net[p].fetch = 1

\* the resolution of a URL from the recorded responses of its network calls:
\* lines 176-200 run on their own
RECURSIVE ExtractFirst(_, _)
ExtractFirst(doc, n) ==
    IF n = 0 THEN EmptyExtraction
    ELSE ProcessAnchor(doc, find_all_a(doc)[n], ExtractFirst(doc, n - 1))

AloneFromPage(final, h) ==
    LET r == h.page[1]
    IN  IF r.raised
        THEN ExtractErrorResult(r.exc \o (IF r.names_url THEN final ELSE << >>))
        ELSE Result(final, PageTitle(r.doc), ExtractFirst(r.doc, Len(find_all_a(r.doc))).grouped)

AloneFromPost(h) ==
    LET r == h.post[1]
        u == uni(r.body)
    IN  IF r.raised THEN ErrorResult(r.exc)
        ELSE IF u.raised THEN ErrorResult(u.value)
        ELSE IF Contains(Lower(u.value), MESSAGE) THEN BypassResult(u.value)
        ELSE AloneFromPage(u.value, h)

ResolveAlone(u_in, h) ==
    LET u == Strip(u_in)
    IN  CASE Shape(u) = "linkshortify" ->
               IF h.get[1].raised THEN ErrorResult(h.get[1].exc)
               ELSE IF extract_id_from_url(h.get[1].url, h.get[1].body) = None
                    THEN ErrorResult(ERR_NO_ID_REDIRECT)
                    ELSE AloneFromPost(h)
          [] Shape(u) = "tejtime" ->
               IF extract_id_from_url(u, << >>) = None
               THEN ErrorResult(ERR_NO_ID_TEJTIME) ELSE AloneFromPost(h)
          [] Shape(u) = "lksfy" -> AloneFromPost(h)
          [] OTHER -> ErrorResult(ERR_UNSUPPORTED)

\* C9: whatever the interleaving of the workers' steps, a resolution returns
\* what it returns run alone on the same responses, and the grouped and seen
\* sets of a worker in its loop are those of its own anchors so far.
C9_IndependentUnderConcurrency ==
    \A p \in Workers :
        /\ Resolved(p) => ret[p] = ResolveAlone(url_in[p], hist[p])
        /\ (Parsed(p) /\ hist[p].stage \in {"none", "ok"}) =>
              ext[p] = ExtractFirst(soup[p][1], idx[p] - 1)

\* two workers have each returned the links of the same page while both were running
C9_Witness ==
    \E p, q \in Workers :
        /\ p # q
        /\ Resolved(p) /\ hist[p].stage = "ok" /\ ret[p].grouped # << >>
        /\ Parsed(q) /\ soup[q] = soup[p]
        /\ pc[q] = "extract" /\ idx[q] = 2

=============================================================================
